---- MODULE Spec2Model ----
(***************************************************************************)
(* Caffeinated Coffee (streamlit_app.py): the four tables, the script's    *)
(* button handlers (one action per handler; place_order in the steps of    *)
(* its transaction), and the properties of the inventory/order rules.      *)
(*                                                                         *)
(* Money is kept in cents (price_per_gram 0.05 is 5).  A table is the set  *)
(* of its rows; a primary key is SQLite's rowid: one more than the largest *)
(* key in the table, 1 in an empty table.  SQLite does not enforce foreign *)
(* keys unless asked to, and the script never asks.                        *)
(***************************************************************************)
EXTENDS Integers, Sequences, FiniteSets, TLC

VARIABLES
    Users,          \* table Users
    CoffeeBeans,    \* table CoffeeBeans
    Orders,         \* table Orders
    OrderItems,     \* table OrderItems
    pc,             \* per browser session: where its place_order run stands
    selected_bean,  \* per session: the CoffeeBean object place_order loaded
    quantity,       \* per session: the value of the quantity widget
    txn,            \* per session: the tables as its open transaction sees them
    writer,         \* the session holding SQLite's write lock, or "none"
    outcome,        \* per session: the message its last handler showed
    pre,            \* per session: the tables when its place_order run began
    clock           \* handlers run so far; datetime.now for order_date

vars == <<Users, CoffeeBeans, Orders, OrderItems, pc, selected_bean, quantity,
          txn, writer, outcome, pre, clock>>

tables == <<Users, CoffeeBeans, Orders, OrderItems>>

\* ------------------------------------------------------------------ bounds
MaxOps == 3
MaxStock == 2

\* --------------------------------------------------------------- constants
NULL == 0

Sessions == {"s1", "s2"}
Operator == "s1"

Statuses == {"Pending", "Shipped", "Delivered"}

DefaultUser == [user_id |-> 1, name |-> "Default User", email |-> "user@example.com"]

demo_beans ==
    << [name |-> "Arabica", origin |-> "Brazil", roast_level |-> "Medium",
        price_per_gram |-> 5, stock_quantity |-> 1000],
       [name |-> "Robusta", origin |-> "Vietnam", roast_level |-> "Dark",
        price_per_gram |-> 3, stock_quantity |-> 500],
       [name |-> "Blue Mountain", origin |-> "Jamaica", roast_level |-> "Light",
        price_per_gram |-> 10, stock_quantity |-> 200],
       [name |-> "Ethiopian Yirgacheffe", origin |-> "Ethiopia", roast_level |-> "Medium",
        price_per_gram |-> 8, stock_quantity |-> 300],
       [name |-> "Colombian Supremo", origin |-> "Colombia", roast_level |-> "Dark",
        price_per_gram |-> 7, stock_quantity |-> 800] >>

\* index: the position in the list .all() returned (beans[0] is index 1)
demo_orders ==
    << [index |-> 1, quantity |-> 50, status |-> "Pending"],
       [index |-> 2, quantity |-> 100, status |-> "Shipped"],
       [index |-> 3, quantity |-> 25, status |-> "Delivered"],
       [index |-> 4, quantity |-> 10, status |-> "Pending"],
       [index |-> 5, quantity |-> 75, status |-> "Shipped"] >>

\* What the operator types into the bean forms (name, origin, roast, price).
BeanForms ==
    { [name |-> "Arabica", origin |-> "Brazil", roast_level |-> "Medium", price_per_gram |-> 5],
      [name |-> "Kona", origin |-> "Hawaii", roast_level |-> "Dark", price_per_gram |-> 1] }

\* The least value each number widget allows, the largest stock of the model,
\* and for the quantity one more than any typed stock.
AddStocks == {1, MaxStock}
UpdateStocks == {0, MaxStock}
Quantities == {1, MaxStock, MaxStock + 1}

\* ----------------------------------------------------------------- helpers
Max(S) == CHOOSE x \in S : \A y \in S : y <= x
Min(S) == CHOOSE x \in S : \A y \in S : x <= y

NextId(ids) == IF ids = {} THEN 1 ELSE Max(ids) + 1

RECURSIVE Ascending(_)
Ascending(S) == IF S = {} THEN <<>> ELSE <<Min(S)>> \o Ascending(S \ {Min(S)})

BeanIds(beans) == {b.bean_id : b \in beans}
OrderIds(orders) == {o.order_id : o \in orders}
ItemIds(items) == {i.item_id : i \in items}

BeanById(beans, id) == CHOOSE b \in beans : b.bean_id = id

\* query(CoffeeBean).filter_by(name=...).first(): the row with the least rowid
FirstByName(beans, name) ==
    BeanById(beans, Min({b.bean_id : b \in {x \in beans : x.name = name}}))

NewBean(id, form, stock) ==
    [bean_id |-> id, name |-> form.name, origin |-> form.origin,
     roast_level |-> form.roast_level, price_per_gram |-> form.price_per_gram,
     stock_quantity |-> stock]

NoBean == NewBean(NULL, [name |-> "", origin |-> "", roast_level |-> "", price_per_gram |-> 0], 0)

Db == [CoffeeBeans |-> CoffeeBeans, Orders |-> Orders, OrderItems |-> OrderItems]
EmptyDb == [CoffeeBeans |-> {}, Orders |-> {}, OrderItems |-> {}]

\* ------------------------------------------------------- ensure_user_exists
ensure_user_always_adds(users) ==
    users \cup {[DefaultUser EXCEPT !.user_id = NextId({u.user_id : u \in users})]}

ensure_user_exists(users) ==
    IF \E u \in users : u.user_id = 1 THEN users ELSE users \cup {DefaultUser}

\* ------------------------------------------------ load_demo_data_and_orders
RECURSIVE AddDemoBeans(_, _)
AddDemoBeans(i, beans) ==
    IF i > Len(demo_beans) THEN beans
    ELSE AddDemoBeans(i + 1,
            beans \cup {NewBean(NextId(BeanIds(beans)), demo_beans[i],
                                demo_beans[i].stock_quantity)})

RECURSIVE AddDemoOrders(_, _, _, _)
AddDemoOrders(i, db, all, now) ==
    IF i > Len(demo_orders) THEN db
    ELSE LET d == demo_orders[i]
             bean == BeanById(db.CoffeeBeans, all[d.index])
             total_price == bean.price_per_gram * d.quantity
             new_order == [order_id |-> NextId(OrderIds(db.Orders)), user_id |-> 1,
                           total_price |-> total_price, order_date |-> now,
                           status |-> d.status]
             new_order_item == [item_id |-> NextId(ItemIds(db.OrderItems)),
                                order_id |-> new_order.order_id,
                                bean_id |-> bean.bean_id,
                                quantity |-> d.quantity, price |-> total_price]
         IN AddDemoOrders(i + 1,
               [CoffeeBeans |-> (db.CoffeeBeans \ {bean}) \cup
                    {[bean EXCEPT !.stock_quantity = bean.stock_quantity - d.quantity]},
                Orders |-> db.Orders \cup {new_order},
                OrderItems |-> db.OrderItems \cup {new_order_item}],
               all, now)

LoadDemo(db, now) ==
    LET added == AddDemoBeans(1, db.CoffeeBeans)
        all == Ascending(BeanIds(added))
    IN AddDemoOrders(1, [db EXCEPT !.CoffeeBeans = added], all, now)

\* ---------------------------------------------------------------- handlers
Idle(s) == pc[s] = "idle" /\ writer = "none" /\ clock < MaxOps

\* What every handler leaves behind: its message, the script's closing
\* ensure_user_exists(), and a session with nothing loaded.
Done(s, message) ==
    /\ outcome' = [outcome EXCEPT ![s] = message]
    /\ pc' = [pc EXCEPT ![s] = "idle"]
    /\ selected_bean' = [selected_bean EXCEPT ![s] = NoBean]
    /\ quantity' = [quantity EXCEPT ![s] = 0]
    /\ txn' = [txn EXCEPT ![s] = EmptyDb]
    /\ pre' = [pre EXCEPT ![s] = EmptyDb]
    /\ writer' = "none"
    /\ clock' = clock + 1

\* A run of the script with no button pressed.
rerun(s) ==
    /\ pc[s] = "idle"
    /\ Users' = ensure_user_exists(Users)
    /\ UNCHANGED <<CoffeeBeans, Orders, OrderItems, pc, selected_bean, quantity,
                   txn, writer, outcome, pre, clock>>

reset_all_data(s) ==
    /\ Idle(s)
    /\ Users' = ensure_user_exists({})
    /\ CoffeeBeans' = {}
    /\ Orders' = {}
    /\ OrderItems' = {}
    /\ Done(s, "reset")

load_demo_data_and_orders(s) ==
    /\ Idle(s)
    /\ LET after == LoadDemo(Db, clock)
       IN /\ CoffeeBeans' = after.CoffeeBeans
          /\ Orders' = after.Orders
          /\ OrderItems' = after.OrderItems
    /\ Users' = ensure_user_exists(Users)
    /\ Done(s, "demo_loaded")

add_coffee_bean(s, form, stock) ==
    /\ Idle(s)
    /\ CoffeeBeans' = CoffeeBeans \cup {NewBean(NextId(BeanIds(CoffeeBeans)), form, stock)}
    /\ Users' = ensure_user_exists(Users)
    /\ UNCHANGED <<Orders, OrderItems>>
    /\ Done(s, "bean_added")

update_coffee_bean(s, selected_bean_name, form, new_stock) ==
    /\ Idle(s)
    /\ LET bean == FirstByName(CoffeeBeans, selected_bean_name)
       IN CoffeeBeans' = (CoffeeBeans \ {bean}) \cup {NewBean(bean.bean_id, form, new_stock)}
    /\ Users' = ensure_user_exists(Users)
    /\ UNCHANGED <<Orders, OrderItems>>
    /\ Done(s, "bean_updated")

delete_coffee_bean(s, selected_bean_name) ==
    /\ Idle(s)
    /\ CoffeeBeans' = CoffeeBeans \ {FirstByName(CoffeeBeans, selected_bean_name)}
    /\ Users' = ensure_user_exists(Users)
    /\ UNCHANGED <<Orders, OrderItems>>
    /\ Done(s, "bean_deleted")

\* session.delete(order): the Order.items relationship has no delete cascade,
\* so the unit of work sets order_id of the order's items to NULL.
DetachItems(items, order_id) ==
    {IF i.order_id = order_id THEN [i EXCEPT !.order_id = NULL] ELSE i : i \in items}

delete_order(s, selected_order_id) ==
    /\ Idle(s)
    /\ Orders' = {o \in Orders : o.order_id # selected_order_id}
    /\ OrderItems' = DetachItems(OrderItems, selected_order_id)
    /\ Users' = ensure_user_exists(Users)
    /\ UNCHANGED CoffeeBeans
    /\ Done(s, "order_deleted")

SetStatusAndPrice(order, new_status) ==
    [order EXCEPT !.status = new_status, !.total_price = 0]

SetStatus(order, new_status) == [order EXCEPT !.status = new_status]

update_order_status(s, order_id, new_status) ==
    /\ Idle(s)
    /\ LET order_to_update == CHOOSE o \in Orders : o.order_id = order_id
       IN IF new_status # order_to_update.status
          THEN /\ Orders' = (Orders \ {order_to_update}) \cup
                                {SetStatus(order_to_update, new_status)}
               /\ Done(s, "status_updated")
          ELSE /\ UNCHANGED Orders
               /\ Done(s, "status_unchanged")
    /\ Users' = ensure_user_exists(Users)
    /\ UNCHANGED <<CoffeeBeans, OrderItems>>

\* -------------------------------------------------------------- place_order
\* Lines 256-291: load the bean by name, read the quantity widget.
place_order_select(s, selected_bean_name, q) ==
    /\ pc[s] = "idle" /\ clock < MaxOps
    /\ Users' = ensure_user_exists(Users)
    /\ LET bean == FirstByName(CoffeeBeans, selected_bean_name)
       IN IF bean.stock_quantity > 0
          THEN /\ pc' = [pc EXCEPT ![s] = "pressed"]
               /\ selected_bean' = [selected_bean EXCEPT ![s] = bean]
               /\ quantity' = [quantity EXCEPT ![s] = q]
               /\ outcome' = [outcome EXCEPT ![s] = "none"]
          ELSE /\ pc' = [pc EXCEPT ![s] = "idle"]
               /\ selected_bean' = [selected_bean EXCEPT ![s] = bean]
               /\ quantity' = [quantity EXCEPT ![s] = q]
               /\ outcome' = [outcome EXCEPT ![s] = "out_of_stock"]
    /\ pre' = [pre EXCEPT ![s] = Db]
    /\ clock' = clock + 1
    /\ UNCHANGED <<CoffeeBeans, Orders, OrderItems, txn, writer>>

NeverInsufficient(bean, q) == FALSE

InsufficientStock(bean, q) == bean.stock_quantity < q

\* Lines 297-299
place_order_insufficient(s) ==
    /\ pc[s] = "pressed"
    /\ InsufficientStock(selected_bean[s], quantity[s])
    /\ pc' = [pc EXCEPT ![s] = "idle"]
    /\ outcome' = [outcome EXCEPT ![s] = "insufficient_stock"]
    /\ Users' = ensure_user_exists(Users)
    /\ UNCHANGED <<CoffeeBeans, Orders, OrderItems, selected_bean, quantity, txn,
                   writer, pre, clock>>

DecrementTwice(bean, q) == [bean EXCEPT !.stock_quantity = bean.stock_quantity - q - q]

Decrement(bean, q) == [bean EXCEPT !.stock_quantity = bean.stock_quantity - q]

\* Line 302: the decrement, on the loaded object
place_order_decrement(s) ==
    /\ pc[s] = "pressed"
    /\ ~InsufficientStock(selected_bean[s], quantity[s])
    /\ selected_bean' = [selected_bean EXCEPT ![s] = Decrement(selected_bean[s], quantity[s])]
    /\ pc' = [pc EXCEPT ![s] = "decremented"]
    /\ UNCHANGED <<tables, quantity, txn, writer, outcome, pre, clock>>

\* UPDATE CoffeeBeans SET stock_quantity=? WHERE bean_id=?
WriteStock(beans, bean) ==
    {IF b.bean_id = bean.bean_id THEN [b EXCEPT !.stock_quantity = bean.stock_quantity]
     ELSE b : b \in beans}

\* Lines 303-309: add the Order and flush: the UPDATE and the INSERT reach the
\* database inside this session's transaction, which takes the write lock.
place_order_flush(s) ==
    /\ pc[s] = "decremented"
    /\ writer = "none"
    /\ LET total_price == (selected_bean[s].price_per_gram * quantity[s])
           new_order == [order_id |-> NextId(OrderIds(Orders)), user_id |-> 1,
                         total_price |-> total_price, order_date |-> clock,
                         status |-> "Pending"]
       IN txn' = [txn EXCEPT ![s] =
                    [CoffeeBeans |-> WriteStock(CoffeeBeans, selected_bean[s]),
                     Orders |-> Orders \cup {new_order},
                     OrderItems |-> OrderItems]]
    /\ writer' = s
    /\ pc' = [pc EXCEPT ![s] = "flushed"]
    /\ UNCHANGED <<tables, selected_bean, quantity, outcome, pre, clock>>

\* Lines 311-318: add the OrderItem; leaving the with block flushes it.
place_order_item(s) ==
    /\ pc[s] = "flushed"
    /\ LET new_order == CHOOSE o \in txn[s].Orders :
                            o.order_id = Max(OrderIds(txn[s].Orders))
           order_item == [item_id |-> NextId(ItemIds(txn[s].OrderItems)),
                          order_id |-> new_order.order_id,
                          bean_id |-> selected_bean[s].bean_id,
                          quantity |-> quantity[s],
                          price |-> new_order.total_price]
       IN txn' = [txn EXCEPT ![s].OrderItems = @ \cup {order_item}]
    /\ pc' = [pc EXCEPT ![s] = "released"]
    /\ UNCHANGED <<tables, selected_bean, quantity, writer, outcome, pre, clock>>

\* Line 320
place_order_commit(s) ==
    /\ pc[s] = "released"
    /\ CoffeeBeans' = txn[s].CoffeeBeans
    /\ Orders' = txn[s].Orders
    /\ OrderItems' = txn[s].OrderItems
    /\ writer' = "none"
    /\ txn' = [txn EXCEPT ![s] = EmptyDb]
    /\ pc' = [pc EXCEPT ![s] = "idle"]
    /\ outcome' = [outcome EXCEPT ![s] = "order_placed"]
    /\ Users' = ensure_user_exists(Users)
    /\ UNCHANGED <<selected_bean, quantity, pre, clock>>

RollbackKeepsWrites(db, t) == t

Rollback(db, t) == db

\* Lines 323-326: an exception anywhere in the try block (a failed statement,
\* a locked database); session.rollback() ends the transaction, if one is open.
place_order_error(s) ==
    /\ pc[s] \in {"decremented", "flushed", "released"}
    /\ LET after == IF pc[s] = "decremented" THEN Db ELSE Rollback(Db, txn[s])
       IN /\ CoffeeBeans' = after.CoffeeBeans
          /\ Orders' = after.Orders
          /\ OrderItems' = after.OrderItems
    /\ writer' = IF writer = s THEN "none" ELSE writer
    /\ txn' = [txn EXCEPT ![s] = EmptyDb]
    /\ pc' = [pc EXCEPT ![s] = "idle"]
    /\ outcome' = [outcome EXCEPT ![s] = "order_error"]
    /\ Users' = ensure_user_exists(Users)
    /\ UNCHANGED <<selected_bean, quantity, pre, clock>>

place_order(s) ==
    \/ \E b \in CoffeeBeans, q \in Quantities : place_order_select(s, b.name, q)
    \/ place_order_insufficient(s)
    \/ place_order_decrement(s)
    \/ place_order_flush(s)
    \/ place_order_item(s)
    \/ place_order_commit(s)
    \/ place_order_error(s)

\* ----------------------------------------------------------- specifications
Init ==
    /\ Users = {}
    /\ CoffeeBeans = {}
    /\ Orders = {}
    /\ OrderItems = {}
    /\ pc = [s \in Sessions |-> "idle"]
    /\ selected_bean = [s \in Sessions |-> NoBean]
    /\ quantity = [s \in Sessions |-> 0]
    /\ txn = [s \in Sessions |-> EmptyDb]
    /\ writer = "none"
    /\ outcome = [s \in Sessions |-> "none"]
    /\ pre = [s \in Sessions |-> EmptyDb]
    /\ clock = 0

Next ==
    \/ rerun(Operator)
    \/ reset_all_data(Operator)
    \/ load_demo_data_and_orders(Operator)
    \/ \E form \in BeanForms, stock \in AddStocks : add_coffee_bean(Operator, form, stock)
    \/ \E b \in CoffeeBeans, form \in BeanForms, stock \in UpdateStocks :
          update_coffee_bean(Operator, b.name, form, stock)
    \/ \E b \in CoffeeBeans : delete_coffee_bean(Operator, b.name)
    \/ \E o \in Orders : delete_order(Operator, o.order_id)
    \/ \E o \in Orders, st \in Statuses : update_order_status(Operator, o.order_id, st)
    \/ place_order(Operator)

Spec == Init /\ [][Next]_vars

\* Two browser sessions placing orders against a database that holds one bean:
\* the states Spec reaches by one add_coffee_bean with the largest stock.
ConcInit ==
    /\ Users = {DefaultUser}
    /\ \E form \in BeanForms : CoffeeBeans = {NewBean(1, form, MaxStock)}
    /\ Orders = {}
    /\ OrderItems = {}
    /\ pc = [s \in Sessions |-> "idle"]
    /\ selected_bean = [s \in Sessions |-> NoBean]
    /\ quantity = [s \in Sessions |-> 0]
    /\ txn = [s \in Sessions |-> EmptyDb]
    /\ writer = "none"
    /\ outcome = [s \in Sessions |-> IF s = Operator THEN "bean_added" ELSE "none"]
    /\ pre = [s \in Sessions |-> EmptyDb]
    /\ clock = 1

ConcNext == \E s \in Sessions : place_order(s)

ConcSpec == ConcInit /\ [][ConcNext]_vars

\* --------------------------------------------------------------- properties
RECURSIVE SumQuantity(_)
SumQuantity(items) ==
    IF items = {} THEN 0
    ELSE LET i == CHOOSE x \in items : TRUE
         IN i.quantity + SumQuantity(items \ {i})

ItemsOfOrder(items, order_id) == {i \in items : i.order_id = order_id}
ItemsOfBean(items, bean_id) == {i \in items : i.bean_id = bean_id}

\* A place_order run of session s has ended with this message.
Ended(s, message) == pc[s] = "idle" /\ outcome[s] = message

InTry(s) == pc[s] \in {"pressed", "decremented", "flushed", "released"}

\* C1: in every reachable state every CoffeeBean has stock_quantity >= 0.
C1_StockNeverNegative == \A b \in CoffeeBeans : b.stock_quantity >= 0

\* C2: a place_order of quantity q on a bean with 0 < q <= stock, run to its
\* commit, leaves the bean's stock at its previous stock minus q, exactly one new
\* Order (Pending, total_price = q * price_per_gram) and exactly one new
\* OrderItem, of that order and that bean, with quantity q and the order's
\* total_price; every other row is as before, and such an order is not refused.
C2_PlaceOrderEffect ==
    \A s \in Sessions :
        /\ Ended(s, "order_placed") =>
             LET id == selected_bean[s].bean_id
                 q == quantity[s]
                 old == BeanById(pre[s].CoffeeBeans, id)
                 new_orders == Orders \ pre[s].Orders
                 new_items == OrderItems \ pre[s].OrderItems
             IN /\ 0 < q /\ q <= old.stock_quantity
                /\ CoffeeBeans = (pre[s].CoffeeBeans \ {old}) \cup
                      {[old EXCEPT !.stock_quantity = old.stock_quantity - q]}
                /\ pre[s].Orders \subseteq Orders
                /\ pre[s].OrderItems \subseteq OrderItems
                /\ Cardinality(new_orders) = 1
                /\ Cardinality(new_items) = 1
                /\ \A o \in new_orders, i \in new_items :
                      /\ o.status = "Pending"
                      /\ o.total_price = q * old.price_per_gram
                      /\ o.order_id \notin OrderIds(pre[s].Orders)
                      /\ i.item_id \notin ItemIds(pre[s].OrderItems)
                      /\ i.order_id = o.order_id
                      /\ i.bean_id = id
                      /\ i.quantity = q
                      /\ i.price = o.total_price
                      /\ ItemsOfOrder(OrderItems, o.order_id) = {i}
        /\ (Ended(s, "insufficient_stock") \/ Ended(s, "out_of_stock")) =>
             ~(0 < quantity[s] /\ quantity[s] <= selected_bean[s].stock_quantity)

C2_Witness ==
    \E s \in Sessions :
        /\ Ended(s, "order_placed")
        /\ quantity[s] = MaxStock
        /\ BeanById(CoffeeBeans, selected_bean[s].bean_id).stock_quantity = 0
        /\ Cardinality(Orders) = 1

\* C3: a place_order with q > stock or stock = 0 ends in an out-of-stock
\* message, never starts its transaction, and leaves Orders, OrderItems and
\* every bean's stock as they were.
C3_OutOfStockRefused ==
    \A s \in Sessions :
        LET loaded == pre[s].CoffeeBeans # {}
            old == BeanById(pre[s].CoffeeBeans, selected_bean[s].bean_id)
            short == quantity[s] > old.stock_quantity \/ old.stock_quantity = 0
        IN (loaded /\ short) =>
              /\ pc[s] \in {"idle", "pressed"}
              /\ pc[s] = "idle" => outcome[s] \in {"insufficient_stock", "out_of_stock"}
              /\ Db = pre[s]

C3_Witness ==
    \E s \in Sessions :
        /\ Ended(s, "insufficient_stock")
        /\ quantity[s] > selected_bean[s].stock_quantity
        /\ selected_bean[s].stock_quantity > 0
        /\ Db = pre[s]

\* C4: when two sessions place orders on the same bean concurrently, the
\* quantities of the orders that succeeded never add up to more than the stock
\* the bean had before both calls, and once both calls have ended the stock is
\* that initial stock minus the quantities of the succeeded orders.
C4_NoOverdraw ==
    (\A s \in Sessions : pc[s] = "idle") =>
        /\ SumQuantity(OrderItems) <= MaxStock
        /\ \A b \in CoffeeBeans : b.stock_quantity = MaxStock - SumQuantity(OrderItems)

\* C5: after delete_coffee_bean the bean is gone and no OrderItem refers to it;
\* every OrderItem's bean_id is the id of an existing CoffeeBean.
C5_DeleteBeanCascades ==
    [][ /\ \A b \in CoffeeBeans :
              delete_coffee_bean(Operator, b.name) =>
                 LET id == FirstByName(CoffeeBeans, b.name).bean_id
                 IN /\ id \notin BeanIds(CoffeeBeans')
                    /\ ItemsOfBean(OrderItems', id) = {}
        /\ \A i \in OrderItems' : i.bean_id \in BeanIds(CoffeeBeans') ]_vars

\* C6: after delete_order the order is gone and so are the OrderItems that
\* belonged to it; every OrderItem's order_id is the id of an existing Order.
C6_DeleteOrderCascades ==
    [][ /\ \A o \in Orders :
              delete_order(Operator, o.order_id) =>
                 /\ o.order_id \notin OrderIds(Orders')
                 /\ ItemIds(ItemsOfOrder(OrderItems, o.order_id)) \cap ItemIds(OrderItems') = {}
        /\ \A i \in OrderItems' : i.order_id \in OrderIds(Orders') ]_vars

\* C7: place_order is all-or-nothing: while its try block runs, and after it
\* ended in an exception, the committed tables are as they were when the call
\* began; and every committed Order has exactly one OrderItem.
C7_AllOrNothing ==
    /\ \A s \in Sessions : (InTry(s) \/ Ended(s, "order_error")) => Db = pre[s]
    /\ \A o \in Orders : Cardinality(ItemsOfOrder(OrderItems, o.order_id)) = 1

C7_Witness ==
    \E s \in Sessions :
        /\ Ended(s, "order_error")
        /\ selected_bean[s].stock_quantity <
              BeanById(pre[s].CoffeeBeans, selected_bean[s].bean_id).stock_quantity
        /\ Db = pre[s]
        /\ Orders # {}

\* C8: load_demo_data_and_orders adds five beans and five orders; each new
\* order has exactly one OrderItem, on a new bean; each new bean's stock is its
\* seeded stock minus the quantity of the seeded order on it; the beans that
\* were there before are unchanged.
C8_DemoDataSeeded ==
    [][ load_demo_data_and_orders(Operator) =>
          LET new_beans == {b \in CoffeeBeans' : b.bean_id \notin BeanIds(CoffeeBeans)}
              new_orders == {o \in Orders' : o.order_id \notin OrderIds(Orders)}
          IN /\ Cardinality(new_beans) = Len(demo_beans)
             /\ Cardinality(new_orders) = Len(demo_orders)
             /\ \A o \in new_orders :
                   /\ Cardinality(ItemsOfOrder(OrderItems', o.order_id)) = 1
                   /\ \A i \in ItemsOfOrder(OrderItems', o.order_id) :
                         i.bean_id \in BeanIds(new_beans)
             /\ \A k \in 1..Len(demo_beans) :
                   \E b \in new_beans :
                      /\ b.name = demo_beans[k].name
                      /\ b.stock_quantity =
                            demo_beans[k].stock_quantity - demo_orders[k].quantity
             /\ CoffeeBeans \subseteq CoffeeBeans' ]_vars

\* C9: whatever runs, ensure_user_exists leaves exactly one User row, the one
\* with id 1: every step of the program ends with the Users table holding it
\* and nothing else.
C9_OneDefaultUser == [][Users' = {DefaultUser}]_vars

C9_Witness ==
    /\ Users = {DefaultUser}
    /\ outcome[Operator] = "reset"
    /\ clock = MaxOps

\* C10: update_order_status with the order's current status writes nothing;
\* with another status it changes that order's status and nothing else.
C10_StatusUpdateFrame ==
    [][ \A o \in Orders, new_status \in Statuses :
          update_order_status(Operator, o.order_id, new_status) =>
             /\ UNCHANGED <<Users, CoffeeBeans, OrderItems>>
             /\ IF new_status = o.status
                THEN UNCHANGED Orders /\ outcome'[Operator] = "status_unchanged"
                ELSE /\ Orders' = (Orders \ {o}) \cup {[o EXCEPT !.status = new_status]}
                     /\ outcome'[Operator] = "status_updated" ]_vars

C10_Witness ==
    /\ outcome[Operator] = "status_updated"
    /\ \E o \in Orders : o.status = "Delivered" /\ o.total_price = MaxStock
    /\ Cardinality(OrderItems) = 1

\* C11: update_coffee_bean, delete_coffee_bean and place_order act on the bean
\* the operator selected in the selectbox (the handler receives that bean's
\* name): the selected bean is the one overwritten, the one deleted, the one
\* place_order loads to decrement and to reference, and no other bean changes.
C11_ActsOnSelectedBean ==
    [][ \A b \in CoffeeBeans :
          /\ \A form \in BeanForms, stock \in UpdateStocks :
                update_coffee_bean(Operator, b.name, form, stock) =>
                   CoffeeBeans' = (CoffeeBeans \ {b}) \cup {NewBean(b.bean_id, form, stock)}
          /\ delete_coffee_bean(Operator, b.name) => CoffeeBeans' = CoffeeBeans \ {b}
          /\ \A q \in Quantities :
                place_order_select(Operator, b.name, q) =>
                   selected_bean'[Operator] = b ]_vars

====
